---- MODULE Spec2Model ----
(***************************************************************************)
(* scoped_signal (src/lib.rs): a signal handler that is installed in a     *)
(* thread-local table for the duration of SignalScope::run and dispatched  *)
(* to by the process-wide trampoline c_handler.                            *)
(*                                                                         *)
(* A signal is asynchronous: it can interrupt a thread between any two     *)
(* statements of run, so run is modelled statement by statement (the "pc"  *)
(* of a run's frame) and a delivery is an action of its own.               *)
(***************************************************************************)
EXTENDS Integers, Sequences, FiniteSets, TLC

VARIABLES
    handlers,   \* SIGNAL_HANDLERS: per thread, one Cell<Option<&dyn Fn>> per signal number
    stack,      \* per thread, the SignalScope::run calls in progress, outermost first
    os_action,  \* the kernel's process-wide disposition of each signal
    last,       \* the deliveries made since the program's latest step, if any
    outcome     \* how run was left, when the program's latest step left a run

vars == <<handlers, stack, os_action, last, outcome>>

----------------------------------------------------------------------------
(* Bounds of the model *)

MaxRunning == 2   \* runs in progress at one time, over all threads
MaxCalls == 3     \* calls of one callback in a row

----------------------------------------------------------------------------
(* Program constants *)

TableSize == 64   \* length of SIGNAL_HANDLERS
SIGKILL == 9
SIGUSR1 == 10
SIGUSR2 == 12

\* the values of nix's Signal enum the model draws from
Signals == {SIGKILL, SIGUSR1, SIGUSR2}
\* sigaction(2) fails with EINVAL for these
Uncatchable == {SIGKILL}
\* the kernel also has signals that are no value of Signal: the real-time ones
SIGRTMAX == 64
KernelSignals == Signals \cup {SIGRTMAX}

\* as if the table had fewer cells than there are signals
TableIndices_short == 0..9

\* the indices of SIGNAL_HANDLERS
TableIndices == 0..(TableSize - 1)

\* signal as usize, the index of a signal's cell
Index(signal) == signal

Threads == {"t1", "t2"}
\* the SaFlags and SigSet values passed to new
ScopeArgs == {[flags |-> {}, set |-> {}], [flags |-> {"SA_RESTART"}, set |-> {SIGUSR2}]}
Vals == {7, 42}                         \* values the work closure returns

\* A reference to a handler names the run that owns it: <<thread, depth>>, the
\* place of the scope on that thread's stack.  Option::None holds no reference.
None == <<>>
NULL == "NULL"
InfoPtrs == {NULL, "info"}              \* the *mut SigInfo the kernel passes

NoDelivery == [thread |-> "none", signo |-> 0, info |-> NULL, called |-> None,
               arg |-> 0, counter |-> 0]
NoExit == [thread |-> "none", kind |-> "none", handler |-> None, signal |-> 0,
           val |-> 0, made |-> 0, pre |-> None]

----------------------------------------------------------------------------
(* Helpers on the stack of runs *)

Top(t) == stack[t][Len(stack[t])]

Pop(s) == SubSeq(s, 1, Len(s) - 1)

SetTopPc(t, p) == [stack EXCEPT ![t][Len(stack[t])].pc = p]

\* positions in stack[t] of the runs for signal s
FramesFor(t, s) == {i \in 1..Len(stack[t]) : stack[t][i].signal = s}

Max(S) == CHOOSE x \in S : \A y \in S : y <= x

\* the innermost run in progress on t for s
Innermost(t, s) == stack[t][Max(FramesFor(t, s))]

\* a run is in progress on t for s
Running(t, s) == FramesFor(t, s) # {}

RECURSIVE SumLen(_)
SumLen(T) == IF T = {} THEN 0
             ELSE LET t == CHOOSE x \in T : TRUE IN Len(stack[t]) + SumLen(T \ {t})

\* t can call SignalScope::run: from thread level or from inside a work closure
CanCall(t) == IF stack[t] = <<>> THEN TRUE ELSE Top(t).pc = "work"

----------------------------------------------------------------------------
(* SignalScope::new, lib.rs 87-94: stores its arguments, no side effect.   *)
(* The handler is named by where it lives: the scope is a local of the     *)
(* caller, so the run at depth d of thread t's stack owns handler <<t, d>>,*)
(* and a later run at the same depth has the same address.                 *)
SignalScope_new(signal, flags, set, handler) ==
    [handler |-> handler, signal |-> signal, flags |-> flags, set |-> set]

\* as if the table were one static of the process
Shard_static(t) == "t1"

(* thread_local!, lib.rs 17: the table a thread reaches through           *)
(* SIGNAL_HANDLERS.with is its own.                                       *)
Shard(t) == t

(* Cell::get on handlers[signo as usize] of thread t, lib.rs 22 *)
Slot(t, signal) == handlers[Shard(t)][Index(signal)]

\* as if putting None back cleared the whole table of the thread
ReplaceSlot_clobber(t, signal, v) ==
    [handlers EXCEPT ![t] = [s \in Signals |-> IF s = signal \/ v = None THEN v ELSE @[s]]]

(* Cell::replace on handlers[signal as usize] of thread t, lib.rs 48, 63 *)
ReplaceSlot(t, signal, v) == [handlers EXCEPT ![Shard(t)][Index(signal)] = v]

(* HandlerGuard::install, lib.rs 39-55: the value stored in the slot is    *)
(* the reference to the run's own handler; the value returned by replace   *)
(* is kept in the guard as old.                                            *)
InstalledValue(scope) == scope.handler

\* as if install dropped the value replace returned
SavedOld_none(t, scope) == None

SavedOld(t, scope) == Slot(t, scope.signal)

\* as if drop put nothing back and left the guard's own handler in the slot
RestoredValue_leak(fr) == fr.handler

\* as if drop cleared the slot
RestoredValue_none(fr) == None

\* as if the early return of `?` skipped the guard
RestoredValue_errLeak(fr) == IF fr.pc = "failed" THEN fr.handler ELSE fr.old

(* HandlerGuard::drop, lib.rs 58-65: the value put back in the slot.      *)
RestoredValue(fr) == fr.old

(* SigAction::new(SigHandler::SigAction(c_handler), flags, set), lib.rs    *)
(* 98-99; nix adds SA_SIGINFO for a SigAction handler.                     *)
SigAction_new(flags, set) ==
    [handler |-> "c_handler", flags |-> flags \cup {"SA_SIGINFO"}, mask |-> set]

SIG_DFL == [handler |-> "SIG_DFL", flags |-> {}, mask |-> {}]

(* signal::sigaction, lib.rs 103: rejected for a signal that cannot be caught *)
SigactionOk(signal) == signal \notin Uncatchable

----------------------------------------------------------------------------
Init ==
    /\ handlers = [t \in Threads |-> [s \in Signals |-> None]]
    /\ stack = [t \in Threads |-> <<>>]
    /\ os_action = [s \in KernelSignals |-> SIG_DFL]
    /\ last = NoDelivery
    /\ outcome = NoExit

(* run, lib.rs 97-102: build the action, then HandlerGuard::install.  The  *)
(* frame keeps the scope's fields, the guard's old, and the position in    *)
(* run.  pre and made are history fields: the slot's value just before the *)
(* install, and the value f() produced.                                    *)
RunInstall(t, signal, flags, set) ==
    /\ CanCall(t)
    /\ SumLen(Threads) < MaxRunning
    /\ LET scope == SignalScope_new(signal, flags, set, <<t, Len(stack[t]) + 1>>)
           fr == [handler |-> scope.handler, signal |-> scope.signal,
                  flags |-> scope.flags, set |-> scope.set,
                  old |-> SavedOld(t, scope), pre |-> handlers[t][signal],
                  pc |-> "installed", ret |-> 0, made |-> 0]
       IN  /\ handlers' = ReplaceSlot(t, scope.signal, InstalledValue(scope))
           /\ stack' = [stack EXCEPT ![t] = Append(@, fr)]
    /\ last' = NoDelivery
    /\ outcome' = NoExit
    /\ UNCHANGED os_action

\* as if run went on to the work whatever sigaction answered
AfterSigaction_ignore(signal) == "registered"

(* run, lib.rs 103: the ? on sigaction's result; an Err leaves run at once *)
AfterSigaction(signal) == IF SigactionOk(signal) THEN "registered" ELSE "failed"

(* run, lib.rs 103: signal::sigaction(self.signal, &sa)?                   *)
RunSigaction(t) ==
    /\ stack[t] # <<>>
    /\ Top(t).pc = "installed"
    /\ os_action' = IF SigactionOk(Top(t).signal)
                      THEN [os_action EXCEPT ![Top(t).signal] =
                               SigAction_new(Top(t).flags, Top(t).set)]
                      ELSE os_action
    /\ stack' = SetTopPc(t, AfterSigaction(Top(t).signal))
    /\ last' = NoDelivery
    /\ outcome' = NoExit
    /\ UNCHANGED handlers

(* run, lib.rs 105-106: the fence, then f() starts                         *)
WorkStart(t) ==
    /\ stack[t] # <<>>
    /\ Top(t).pc = "registered"
    /\ stack' = SetTopPc(t, "work")
    /\ last' = NoDelivery
    /\ outcome' = NoExit
    /\ UNCHANGED <<handlers, os_action>>

\* as if run answered with a value of its own
RetOf_const(v) == 42

(* run, lib.rs 106: let ret = Ok(f()), the value carried by ret            *)
RetOf(v) == v

(* run, lib.rs 106-107: f() returns v; ret = Ok(v)                         *)
WorkReturn(t, v) ==
    /\ stack[t] # <<>>
    /\ Top(t).pc = "work"
    /\ stack' = [stack EXCEPT ![t][Len(stack[t])].pc = "workdone",
                              ![t][Len(stack[t])].ret = RetOf(v),
                              ![t][Len(stack[t])].made = v]
    /\ last' = NoDelivery
    /\ outcome' = NoExit
    /\ UNCHANGED <<handlers, os_action>>

(* run, lib.rs 106: f() panics; the unwind reaches run's frame             *)
WorkPanic(t) ==
    /\ stack[t] # <<>>
    /\ Top(t).pc = "work"
    /\ stack' = SetTopPc(t, "unwinding")
    /\ last' = NoDelivery
    /\ outcome' = NoExit
    /\ UNCHANGED <<handlers, os_action>>

\* as if run put the default disposition back when it is left
ActionAfterRun_reinstall(fr) == [os_action EXCEPT ![fr.signal] = SIG_DFL]

(* run, lib.rs 103-114: the action sigaction returned is dropped          *)
(* (_old_handler) and nothing registers another one on the way out: "we   *)
(* no longer reinstall the old handler".                                  *)
ActionAfterRun(fr) == os_action

\* as if run caught the panic of its work and answered Ok
ExitKind_swallow(fr) ==
    CASE fr.pc = "workdone"  -> "ok"
      [] fr.pc = "failed"    -> "err"
      [] fr.pc = "unwinding" -> "ok"

\* how a frame that is being left reports to run's caller
ExitKind(fr) ==
    CASE fr.pc = "workdone"  -> "ok"
      [] fr.pc = "failed"    -> "err"
      [] fr.pc = "unwinding" -> "panic"

(* HandlerGuard::drop, lib.rs 58-65, on each way out of run: drop(guard)   *)
(* at 110 after work returned, the early return of `?` at 103, and the     *)
(* unwind out of f() at 106.  run then returns to its caller (114) or the  *)
(* panic goes on into the caller, which is the enclosing work closure when *)
(* there is one; that closure either catches it or is unwound in turn.     *)
GuardDrop(t, caught) ==
    /\ stack[t] # <<>>
    /\ Top(t).pc \in {"workdone", "failed", "unwinding"}
    /\ handlers' = ReplaceSlot(t, Top(t).signal, RestoredValue(Top(t)))
    /\ outcome' = [thread |-> t, kind |-> ExitKind(Top(t)), handler |-> Top(t).handler,
                   signal |-> Top(t).signal, val |-> Top(t).ret, made |-> Top(t).made,
                   pre |-> Top(t).pre]
    /\ LET rest == Pop(stack[t])
       IN  stack' = [stack EXCEPT ![t] =
                        IF Top(t).pc = "unwinding" /\ rest # <<>> /\ ~caught
                          THEN [rest EXCEPT ![Len(rest)].pc = "unwinding"]
                          ELSE rest]
    /\ last' = NoDelivery
    /\ os_action' = ActionAfterRun(Top(t))

\* as if c_handler did not test the info pointer
Dispatch_ignoreNull(t, signo, info) == Slot(t, signo)

\* as if c_handler looked only at the event info
Dispatch_anySlot(t, signo, info) ==
    IF info # NULL /\ \E s \in Signals : Slot(t, s) # None
      THEN Slot(t, CHOOSE s \in Signals : Slot(t, s) # None)
      ELSE None

(* c_handler, lib.rs 19-28: the callback it calls, if any                  *)
Dispatch(t, signo, info) ==
    IF Slot(t, signo) # None /\ info # NULL THEN Slot(t, signo) ELSE None

\* as if the callback were handed the index of a zero-based table
SignoArg_index(signo) == signo - 1

(* c_handler, lib.rs 24: the first argument of the call, signo as u8       *)
SignoArg(signo) == signo % 256

\* as if c_handler took the callback out of its cell to call it
HandlersAfterCall_take(t, signo) == ReplaceSlot(t, signo, None)

(* c_handler, lib.rs 22: the cell is read with get(), which copies the     *)
(* reference out and leaves the cell as it was                             *)
HandlersAfterCall(t, signo) == handlers

(* The kernel delivers signal signo to thread t while the disposition of   *)
(* signo is the trampoline, and c_handler runs on t (lib.rs 19-28).  A     *)
(* callback increments a counter when it is called.  last describes the    *)
(* deliveries of one signal to one thread made in a row: the latest call   *)
(* of c_handler and where the calls left the counter, which started at 0.  *)
Deliver(t, signo, info) ==
    /\ os_action[signo].handler = "c_handler"
    /\ LET again == last.thread = t /\ last.signo = signo /\ last.info = info
           h == Dispatch(t, signo, info)
           before == IF again THEN last.counter ELSE 0
       IN  /\ h # None => before < MaxCalls
           /\ last' = [thread |-> t, signo |-> signo, info |-> info, called |-> h,
                       arg |-> IF h # None THEN SignoArg(signo) ELSE 0,
                       counter |-> IF h # None THEN before + 1 ELSE before]
    /\ handlers' = HandlersAfterCall(t, signo)
    /\ UNCHANGED <<stack, os_action, outcome>>

Next ==
    \/ \E t \in Threads, s \in Signals, a \in ScopeArgs :
          RunInstall(t, s, a.flags, a.set)
    \/ \E t \in Threads : RunSigaction(t)
    \/ \E t \in Threads : WorkStart(t)
    \/ \E t \in Threads, v \in Vals : WorkReturn(t, v)
    \/ \E t \in Threads : WorkPanic(t)
    \/ \E t \in Threads, caught \in BOOLEAN : GuardDrop(t, caught)
    \/ \E t \in Threads, s \in KernelSignals, i \in InfoPtrs : Deliver(t, s, i)

Spec == Init /\ [][Next]_vars

----------------------------------------------------------------------------
TypeOK ==
    /\ \A t \in Threads, s \in Signals :
          handlers[t][s] \in {None} \cup (Threads \X (1..MaxRunning))
    /\ last.counter \in 0..MaxCalls

----------------------------------------------------------------------------
(* What the histories say *)

\* the latest step delivered signal s to thread t
Delivered(t, s) == last.thread = t /\ last.signo = s

\* the latest program step left a run for s on t
Left(t, s) == outcome.thread = t /\ outcome.signal = s

\* the run that owns handler h is in progress, and it is a run for s
OwnerRunning(h, s) ==
    /\ h # None
    /\ h[2] \in 1..Len(stack[h[1]])
    /\ stack[h[1]][h[2]].handler = h
    /\ stack[h[1]][h[2]].signal = s

----------------------------------------------------------------------------
(* C1: whenever no run for signal s is in progress on thread t, slot       *)
(* (t, s) is empty; in particular right after a run was left, by whichever *)
(* path, with no enclosing run for the same signal.                        *)
C1_NoLeak ==
    \A t \in Threads, s \in Signals : ~Running(t, s) => handlers[t][s] = None

C1_Witness ==
    /\ outcome.kind = "ok"
    /\ ~Running(outcome.thread, outcome.signal)
    /\ handlers[outcome.thread][outcome.signal] = None

(* C2: with run B for s nested in the work of run A for s on thread t, a   *)
(* delivery of s to t while B's work runs calls B's handler and not A's,   *)
(* and a delivery after B was left and before A's work ends calls A's      *)
(* handler: the slot is back to what it held before B installed.           *)
C2_NestingLaw ==
    \A t \in Threads, s \in Signals :
      (Delivered(t, s) /\ last.info # NULL /\ Running(t, s) /\ Innermost(t, s).pc = "work") =>
        LET B == Innermost(t, s)
        IN  /\ (\E i \in FramesFor(t, s) : stack[t][i].handler # B.handler) =>
                  /\ last.called = B.handler
                  /\ \A i \in FramesFor(t, s) :
                        stack[t][i].handler # B.handler => last.called # stack[t][i].handler
            /\ (Left(t, s) /\ outcome.pre = B.handler) => last.called = outcome.pre

C2_Witness ==
    \E t \in Threads, s \in Signals :
      /\ Left(t, s) /\ outcome.kind = "ok" /\ outcome.pre # None
      /\ Delivered(t, s) /\ last.called = outcome.pre
      /\ Len(stack[t]) = 1 /\ Top(t).pc = "work" /\ Top(t).handler = outcome.pre

(* C3: when work panics, once the unwind has left run the slot holds the   *)
(* value it held just before that run installed, as after a normal return. *)
C3_UnwindRestores ==
    outcome.kind \in {"panic", "ok"} =>
        handlers[outcome.thread][outcome.signal] = outcome.pre

C3_Witness ==
    /\ outcome.kind = "panic"
    /\ outcome.pre # None
    /\ handlers[outcome.thread][outcome.signal] = outcome.pre

(* C4: when sigaction fails, run returns an error and the slot is back to  *)
(* what it held before the install (empty with no enclosing run for the    *)
(* signal).                                                                *)
C4_ErrorRestores ==
    /\ (outcome.thread # "none" /\ ~SigactionOk(outcome.signal)) => outcome.kind = "err"
    /\ outcome.kind = "err" =>
          /\ handlers[outcome.thread][outcome.signal] = outcome.pre
          /\ ~Running(outcome.thread, outcome.signal) =>
                handlers[outcome.thread][outcome.signal] = None

C4_Witness ==
    /\ outcome.kind = "err"
    /\ stack[outcome.thread] # <<>>
    /\ handlers[outcome.thread][outcome.signal] = None

(* C5: slot (t, s) holds the handler of the innermost run in progress on t *)
(* for s, and is empty when there is none; each run in progress owns the   *)
(* handler of its own place on the stack.                                  *)
C5_StackDiscipline ==
    \A t \in Threads :
      /\ \A i \in 1..Len(stack[t]) : stack[t][i].handler = <<t, i>>
      /\ \A s \in Signals :
            handlers[t][s] = IF Running(t, s) THEN Innermost(t, s).handler ELSE None

C5_Witness ==
    \E t \in Threads, s \in Signals :
      /\ Left(t, s)
      /\ Running(t, s)
      /\ handlers[t][s] = Innermost(t, s).handler

C7_DispatchCount ==
    [][\A t \in Threads, s \in Signals :
          (/\ last' # last /\ last'.thread = t /\ last'.signo = s /\ last'.info # NULL
           /\ Running(t, s) /\ Innermost(t, s).pc = "work") =>
             /\ last'.called = Innermost(t, s).handler
             /\ last'.arg = s
             /\ last'.counter = (IF Delivered(t, s) /\ last.info # NULL
                                   THEN last.counter ELSE 0) + 1]_vars

C7_Witness ==
    \E t \in Threads, s \in Signals :
      /\ Delivered(t, s) /\ Running(t, s) /\ Innermost(t, s).pc = "work"
      /\ last.called = Innermost(t, s).handler
      /\ last.arg = s
      /\ last.counter = 3

(* C8: a delivery of s to a thread calls only a handler of a run of that   *)
(* thread for s, never the handler of a run of another thread.             *)
C8_OwnThreadOnly ==
    last.called # None =>
        /\ last.called[1] = last.thread
        /\ \E i \in FramesFor(last.thread, last.signo) :
              stack[last.thread][i].handler = last.called
        /\ \A t \in Threads \ {last.thread} : \A i \in 1..Len(stack[t]) :
              stack[t][i].handler # last.called

C8_Witness ==
    \E t1 \in Threads : \E t2 \in Threads \ {t1} :
      /\ Delivered(t2, last.signo)
      /\ last.called # None
      /\ Running(t1, last.signo) /\ Innermost(t1, last.signo).pc = "work"
      /\ Running(t2, last.signo)

(* C9: a delivery of s to a thread with no run in progress for s calls no  *)
(* callback.                                                               *)
C9_NoRunNoCall ==
    (last.thread # "none" /\ ~Running(last.thread, last.signo)) => last.called = None

C9_Witness ==
    \E t1 \in Threads :
      /\ last.thread \in Threads \ {t1}
      /\ last.info # NULL
      /\ ~Running(last.thread, last.signo)
      /\ last.called = None
      /\ Running(t1, last.signo) /\ Innermost(t1, last.signo).pc = "work"

(* C10: a step of a run for s1 on t (its install, its work, its exit by    *)
(* any path) leaves slot (t, s2) unchanged for every other signal s2: a    *)
(* slot changes only in the install or the exit of a run for its own       *)
(* signal on its own thread.                                               *)
C10_CrossSignal ==
    [][\A t \in Threads, s2 \in Signals :
          handlers'[t][s2] # handlers[t][s2] =>
             \/ /\ Len(stack'[t]) = Len(stack[t]) + 1
                /\ stack'[t][Len(stack'[t])].signal = s2
             \/ /\ Len(stack'[t]) = Len(stack[t]) - 1
                /\ stack[t][Len(stack[t])].signal = s2]_vars

C10_Witness ==
    \E t \in Threads, s2 \in Signals :
      /\ outcome.thread = t
      /\ outcome.signal # s2
      /\ handlers[t][s2] # None

C12_ArgsInEffect ==
    (last.called # None /\ OwnerRunning(last.called, last.signo)) =>
        LET scope == stack[last.called[1]][last.called[2]]
        IN  /\ os_action[last.signo].mask = scope.set
            /\ os_action[last.signo].flags \ {"SA_SIGINFO"} = scope.flags

(* C13: run returns Ok with exactly the value work produced whenever       *)
(* sigaction succeeded and work returned, and returns Err only when        *)
(* sigaction failed; a delivery during work leaves the value run is going  *)
(* to return untouched.                                                    *)
C13_RunResult ==
    [][/\ \A t \in Threads :
             (stack[t] # <<>> /\ Len(stack'[t]) < Len(stack[t])) =>
                /\ Top(t).pc = "workdone" =>
                      /\ outcome'.kind = "ok"
                      /\ outcome'.val = outcome'.made
                      /\ outcome'.val \in Vals
                /\ outcome'.kind = "ok" => (Top(t).pc = "workdone" /\ SigactionOk(Top(t).signal))
                /\ outcome'.kind = "err" <=> ~SigactionOk(Top(t).signal)
       /\ (last' # last /\ last'.thread # "none") => stack' = stack]_vars

C13_Witness ==
    /\ outcome.kind = "ok"
    /\ outcome.val = 7
    /\ outcome.made = 7
    /\ SigactionOk(outcome.signal)

(* C14: every index used on the table is one of its 64: the signal of      *)
(* every install and restore, and every signal number c_handler can be     *)
(* called with, which are the signals a run has registered it for.         *)
C14_IndexInTable ==
    /\ \A t \in Threads : \A i \in 1..Len(stack[t]) :
          Index(stack[t][i].signal) \in TableIndices
    /\ outcome.thread # "none" => Index(outcome.signal) \in TableIndices
    /\ \A s \in KernelSignals :
          os_action[s].handler = "c_handler" =>
             /\ Index(s) \in TableIndices
             /\ \E a \in ScopeArgs : os_action[s] = SigAction_new(a.flags, a.set)
    /\ last.thread # "none" =>
          /\ os_action[last.signo].handler = "c_handler"
          /\ Index(last.signo) \in TableIndices

C14_Witness ==
    /\ last.thread # "none"
    /\ last.called # None
    /\ Index(last.signo) = SIGUSR2
    /\ os_action[SIGRTMAX].handler = "SIG_DFL"

(* C15: a call of c_handler on t for s calls a callback exactly when slot  *)
(* (t, s) is not empty and the info pointer is not null; it then calls the *)
(* callback of that slot, once per call (the counter of a first call is    *)
(* 1), with s; otherwise it calls nothing.                                 *)
C15_TrampolineDispatch ==
    last.thread # "none" =>
        LET slot == Slot(last.thread, last.signo)
        IN  /\ last.called # None <=> (slot # None /\ last.info # NULL)
            /\ last.called # None =>
                  /\ last.called = slot
                  /\ last.arg = last.signo
                  /\ last.counter \in 1..MaxCalls
            /\ last.called = None => (last.arg = 0 /\ last.counter = 0)

C15_Witness ==
    /\ last.thread # "none"
    /\ last.info = NULL
    /\ Slot(last.thread, last.signo) # None
    /\ last.called = None

(* C16: a run whose sigaction fails never starts its work: it goes from    *)
(* the install straight to its exit, which reports the error, carries no   *)
(* value of the work and finds the slot as it was before the install.      *)
C16_FailureSkipsWork ==
    /\ \A t \in Threads : \A i \in 1..Len(stack[t]) :
          ~SigactionOk(stack[t][i].signal) =>
             /\ stack[t][i].pc \in {"installed", "failed"}
             /\ stack[t][i].made = 0
    /\ outcome.kind = "err" =>
          /\ ~SigactionOk(outcome.signal)
          /\ outcome.made = 0 /\ outcome.val = 0
          /\ Slot(outcome.thread, outcome.signal) = outcome.pre
    /\ (outcome.thread # "none" /\ ~SigactionOk(outcome.signal)) => outcome.kind = "err"

C16_Witness ==
    /\ outcome.kind = "err"
    /\ outcome.made = 0
    /\ Slot(outcome.thread, outcome.signal) = None
    /\ os_action[outcome.signal] = SIG_DFL
    /\ stack[outcome.thread] = <<>>

(* C17: a run whose work panicked is left with neither Ok nor Err: its     *)
(* slot is put back and the panic goes on into its caller.  Only the       *)
(* innermost run of a thread unwinds, every run around it is still inside  *)
(* its work; once the innermost is left, the run around it is unwound next *)
(* unless its work caught the panic.                                       *)
C17_PanicPropagates ==
    /\ \A t \in Threads : \A i \in 1..Len(stack[t]) :
          /\ i < Len(stack[t]) => stack[t][i].pc = "work"
          /\ stack[t][i].pc = "unwinding" =>
                (stack[t][i].ret = 0 /\ stack[t][i].made = 0 /\ SigactionOk(stack[t][i].signal))
    /\ (outcome.thread # "none" /\ SigactionOk(outcome.signal) /\ outcome.made = 0) =>
          outcome.kind = "panic"
    /\ outcome.kind = "panic" =>
          /\ outcome.val = 0 /\ outcome.made = 0
          /\ Slot(outcome.thread, outcome.signal) = outcome.pre
          /\ stack[outcome.thread] # <<>> =>
                /\ Top(outcome.thread).pc \in {"unwinding", "work"}
                /\ Len(stack[outcome.thread]) = outcome.handler[2] - 1

C17_Witness ==
    /\ outcome.kind = "panic"
    /\ stack[outcome.thread] # <<>>
    /\ Top(outcome.thread).pc = "unwinding"
    /\ Top(outcome.thread).signal = outcome.signal
    /\ Slot(outcome.thread, outcome.signal) = Top(outcome.thread).handler

====
